---- MODULE Spec2Model ----
(***************************************************************************)
(* A model of pytool (src/pytool/lang.py, src/pytool/time.py).             *)
(*                                                                         *)
(* Four independent state machines share this module, one per utility      *)
(* family; each leaves the variables of the others untouched:              *)
(*   Spec       the singleton class wrapper (lang.singleton)               *)
(*   SpecUnset  the UNSET sentinel (lang._UNSETMeta, lang.UNSET)           *)
(*   SpecFrame  the frame name resolver (lang.get_name)                    *)
(*   SpecTime   the time utilities (time.py)                               *)
(* The source is Python 2 code (__metaclass__, __nonzero__, im_self,       *)
(* basestring); the model follows Python 2 semantics.                      *)
(***************************************************************************)
EXTENDS Integers, Sequences, FiniteSets, TLC

VARIABLES
    \* ---- singleton wrapper ----
    klass,          \* the original class handed to singleton()
    cls_singleton,  \* cls._singleton, the slot of the wrapped class
    pc,             \* per thread: position inside __new__
    args,           \* per thread: the argument of the call in progress
    built,          \* per thread: the instance klass(...) returned, not yet stored
    result,         \* per thread: outcome of the thread's last finished call
    nextId,         \* identity of the next object klass builds
    calls,          \* number of construction calls started so far
    history,        \* the events so far, in order (observation only)
    overlapped,     \* TRUE once two calls were in progress at the same time
    \* ---- UNSET sentinel ----
    uop,            \* the last operation applied to UNSET
    uarg,           \* its operand (for ==)
    ures,           \* its result
    uiter,          \* the elements the last iteration yielded
    ucount,         \* number of operations applied so far
    uiters,         \* number of iterations among them
    \* ---- frame name resolver ----
    frame,          \* the frame handed to get_name
    fres,           \* what get_name did with it
    \* ---- time utilities ----
    now,            \* the system clock (datetime.datetime.now())
    top,            \* the last time operation applied
    tin,            \* its input
    tout,           \* its output
    tmid,           \* the intermediate value of a composed call
    tclock          \* the clock's reading when the operation was called

vars == <<klass, cls_singleton, pc, args, built, result, nextId, calls, history,
          overlapped, uop, uarg, ures, uiter, ucount, uiters, frame, fres,
          now, top, tin, tout, tmid, tclock>>

singletonVars == <<klass, cls_singleton, pc, args, built, result, nextId, calls,
                   history, overlapped>>
unsetVars == <<uop, uarg, ures, uiter, ucount, uiters>>
frameVars == <<frame, fres>>
timeVars == <<now, top, tin, tout, tmid, tclock>>

(***************************************************************************)
(* Bounds                                                                  *)
(***************************************************************************)
MaxCalls == 3
MaxOps == 4
MaxDrain == 2

(***************************************************************************)
(* lang.singleton                                                          *)
(***************************************************************************)
Threads == {"t1", "t2"}

\* Python's None in the slot; objects are records [id, arg] with id >= 1.
None == [id |-> 0, arg |-> 0]

\* The classes handed to singleton(): "Plain" instances are always truthy
\* (object's default), "Sized" instances define __len__ returning the
\* constructor argument, so an instance built with 0 is false-y.
Klasses == {"Plain", "Sized"}

\* Arguments of a construction call: one the original constructor rejects
\* (it raises on a negative argument), zero and a positive one.
Args == {-1, 0, 1}

\* Python truth value of what the slot holds, for an instance of class k.
Truthy(k, v) == v /= None /\ (k = "Plain" \/ v.arg /= 0)

\* lang.py:114  `if not cls._singleton:`
SlotLooksEmpty(k, v) == ~Truthy(k, v)

\* klass(*args, **kwargs): does the original construction logic raise?
KlassRaises(k, a) == a < 0

\* klass(*args, **kwargs): the fresh instance it returns otherwise.
KlassNew(id, a) == [id |-> id, arg |-> a]

\* lang.py:115: evaluating klass(...) does not touch the slot, whether the
\* constructor returns or raises; only the assignment that follows does.
SlotAfterConstructHalfBuilt(k, slot, id, a) ==
    IF KlassRaises(k, a) THEN KlassNew(id, a) ELSE slot
SlotAfterConstruct(k, slot, id, a) == slot

Busy(t) == pc[t] /= "idle"

Event(kind, t, a, inst, slot) ==
    [kind |-> kind, thread |-> t, arg |-> a, inst |-> inst, slot |-> slot]

SingletonInit ==
    /\ klass \in Klasses
    /\ cls_singleton = None
    /\ pc = [t \in Threads |-> "idle"]
    /\ args = [t \in Threads |-> 0]
    /\ built = [t \in Threads |-> None]
    /\ result = [t \in Threads |-> [kind |-> "none", inst |-> None]]
    /\ nextId = 1
    /\ calls = 0
    /\ history = <<>>
    /\ overlapped = FALSE

\* A thread calls C(a): __new__ is entered (lang.py:113).
Call(t, a) ==
    /\ pc[t] = "idle"
    /\ calls < MaxCalls
    /\ pc' = [pc EXCEPT ![t] = "check"]
    /\ args' = [args EXCEPT ![t] = a]
    /\ calls' = calls + 1
    /\ overlapped' = (overlapped \/ \E u \in Threads \ {t} : Busy(u))
    /\ history' = Append(history, Event("call", t, a, None, cls_singleton))
    /\ UNCHANGED <<klass, cls_singleton, built, result, nextId>>
    /\ UNCHANGED <<unsetVars, frameVars, timeVars>>

\* lang.py:114: the slot is read and tested for truth.
Check(t) ==
    /\ pc[t] = "check"
    /\ pc' = [pc EXCEPT ![t] =
                IF SlotLooksEmpty(klass, cls_singleton) THEN "construct" ELSE "return"]
    /\ UNCHANGED <<klass, cls_singleton, args, built, result, nextId, calls,
                   history, overlapped>>
    /\ UNCHANGED <<unsetVars, frameVars, timeVars>>

\* lang.py:115, right-hand side: klass(*args, **kwargs) runs. When it raises
\* the exception leaves __new__ and the assignment never happens.
Construct(t) ==
    /\ pc[t] = "construct"
    /\ IF KlassRaises(klass, args[t])
       THEN /\ pc' = [pc EXCEPT ![t] = "idle"]
            /\ result' = [result EXCEPT ![t] = [kind |-> "raised", inst |-> None]]
            /\ cls_singleton' = SlotAfterConstruct(klass, cls_singleton, nextId, args[t])
            /\ history' = Append(history,
                 Event("raise", t, args[t], None,
                       SlotAfterConstruct(klass, cls_singleton, nextId, args[t])))
            /\ UNCHANGED <<built, nextId>>
       ELSE /\ pc' = [pc EXCEPT ![t] = "store"]
            /\ built' = [built EXCEPT ![t] = KlassNew(nextId, args[t])]
            /\ nextId' = nextId + 1
            /\ history' = Append(history,
                              Event("build", t, args[t], KlassNew(nextId, args[t]),
                                    cls_singleton))
            /\ cls_singleton' = SlotAfterConstruct(klass, cls_singleton, nextId, args[t])
            /\ UNCHANGED result
    /\ UNCHANGED <<klass, args, calls, overlapped>>
    /\ UNCHANGED <<unsetVars, frameVars, timeVars>>

\* The value the slot holds after `cls._singleton = <new>` (lang.py:115).
StoreSlotKeepFirst(old, new) == IF old = None THEN new ELSE old
StoreSlot(old, new) == new

\* lang.py:115, the assignment.
Store(t) ==
    /\ pc[t] = "store"
    /\ cls_singleton' = StoreSlot(cls_singleton, built[t])
    /\ pc' = [pc EXCEPT ![t] = "return"]
    /\ built' = [built EXCEPT ![t] = None]
    /\ history' = Append(history, Event("store", t, args[t], built[t],
                                        StoreSlot(cls_singleton, built[t])))
    /\ UNCHANGED <<klass, args, result, nextId, calls, overlapped>>
    /\ UNCHANGED <<unsetVars, frameVars, timeVars>>

\* lang.py:116: `return cls._singleton` reads the slot again.
Return(t) ==
    /\ pc[t] = "return"
    /\ pc' = [pc EXCEPT ![t] = "idle"]
    /\ result' = [result EXCEPT ![t] = [kind |-> "returned", inst |-> cls_singleton]]
    /\ history' = Append(history, Event("ret", t, args[t], cls_singleton, cls_singleton))
    /\ UNCHANGED <<klass, cls_singleton, args, built, nextId, calls, overlapped>>
    /\ UNCHANGED <<unsetVars, frameVars, timeVars>>

SingletonNext ==
    \/ \E t \in Threads, a \in Args : Call(t, a)
    \/ \E t \in Threads : Check(t)
    \/ \E t \in Threads : Construct(t)
    \/ \E t \in Threads : Store(t)
    \/ \E t \in Threads : Return(t)

(***************************************************************************)
(* lang._UNSETMeta, lang.UNSET                                             *)
(***************************************************************************)
\* Python values: a type tag and a payload (the number itself, or the
\* length of a string or container; 0 where the type has none).
PyVal(tag, n) == [tag |-> tag, n |-> n]
PyNone == PyVal("NoneType", 0)
PyFalse == PyVal("bool", 0)
PyTrue == PyVal("bool", 1)
PyBool(b) == IF b THEN PyTrue ELSE PyFalse
PyInt(n) == PyVal("int", n)
TheUNSET == PyVal("UNSET", 0)

\* The operands UNSET is compared with.
Values ==
    {PyNone, PyFalse, PyTrue, TheUNSET, PyVal("object", 0)}
    \cup {PyVal("int", n) : n \in -2..2}
    \cup {PyVal(tag, n) : tag \in {"str", "list", "tuple", "dict"}, n \in 0..2}

\* _UNSETMeta.__nonzero__ (lang.py:126-127)
Meta_nonzero == FALSE

\* _UNSETMeta.__len__ (lang.py:129-130)
Meta_len == 0

\* Python's truth test of a value (`not other`, bool(x)): None and False are
\* false, a number is true when non-zero, a string or container when
\* non-empty, UNSET by its metaclass's __nonzero__, any other object is true.
PyTruth(v) ==
    CASE v.tag = "NoneType" -> FALSE
      [] v.tag \in {"bool", "int"} -> v.n /= 0
      [] v.tag \in {"str", "list", "tuple", "dict"} -> v.n /= 0
      [] v.tag = "UNSET" -> Meta_nonzero
      [] OTHER -> TRUE

\* _UNSETMeta.__eq__ (lang.py:132-137); `cls is other` is identity with the
\* one UNSET class.
Meta_eqNoneOnly(other) ==
    IF other = TheUNSET THEN TRUE
    ELSE IF other = PyNone THEN TRUE
    ELSE FALSE
Meta_eq(other) ==
    IF other = TheUNSET THEN TRUE
    ELSE IF ~PyTruth(other) THEN TRUE
    ELSE FALSE

\* _UNSETMeta.__iter__ (lang.py:139-140): the iterator is the class itself.
Meta_iter == TheUNSET

\* _UNSETMeta.next (lang.py:142-143): raises StopIteration at once.
Meta_nextYieldsFirst(n) == [stop |-> n >= 1, value |-> PyNone]
Meta_next(n) == [stop |-> TRUE, value |-> PyNone]

\* list(UNSET): next() is called on iter(UNSET) until it raises
\* StopIteration; n counts the elements drawn so far.
RECURSIVE Drain(_)
Drain(n) ==
    IF n >= MaxDrain \/ Meta_next(n).stop THEN <<>>
    ELSE <<Meta_next(n).value>> \o Drain(n + 1)

\* UNSET.__new__ (lang.py:177-178): calling UNSET() returns the class.
UNSET_new == TheUNSET

\* _UNSETMeta.__repr__ (lang.py:145-146)
Meta_repr == "UNSET"

UnsetInit ==
    /\ uop = "none"
    /\ uarg = PyNone
    /\ ures = PyNone
    /\ uiter = <<>>
    /\ ucount = 0
    /\ uiters = 0

UnsetStep(op, arg, res, yielded) ==
    /\ ucount < MaxOps
    /\ uop' = op
    /\ uarg' = arg
    /\ ures' = res
    /\ uiter' = yielded
    /\ ucount' = ucount + 1
    /\ uiters' = IF op = "iter" THEN uiters + 1 ELSE uiters
    /\ UNCHANGED <<singletonVars, frameVars, timeVars>>

\* bool(UNSET)
OpBool == UnsetStep("bool", PyNone, PyBool(Meta_nonzero), uiter)
\* len(UNSET)
OpLen == UnsetStep("len", PyNone, PyInt(Meta_len), uiter)
\* UNSET == v
OpEq(v) == UnsetStep("eq", v, PyBool(Meta_eq(v)), uiter)
\* list(UNSET), for x in UNSET
OpIter == UnsetStep("iter", PyNone, Meta_iter, Drain(0))
\* UNSET()
OpCall == UnsetStep("call", PyNone, UNSET_new, uiter)
\* repr(UNSET)
OpRepr == UnsetStep("repr", PyNone, PyVal(Meta_repr, 0), uiter)

UnsetNext ==
    \/ OpBool
    \/ OpLen
    \/ \E v \in Values : OpEq(v)
    \/ OpIter
    \/ OpCall
    \/ OpRepr

(***************************************************************************)
(* lang.get_name                                                           *)
(***************************************************************************)
\* A frame, as far as get_name looks at it. Names are strings; "" stands
\* for None (inspect.getmodule found no module, an object has no __name__).
\*   module    inspect.getmodule(frame).__name__
\*   co_name   frame.f_code.co_name
\*   varname   frame.f_code.co_varnames[0], or "" when co_varnames is empty
\*   bound     whether frame.f_locals holds varname
\*   attr      what getattr(maybe_cls, co_name) does:
\*               "missing"   raises AttributeError
\*               "error"     raises another exception (a property or a
\*                           __getattr__ that fails)
\*               "plain"     returns an object without im_self
\*               "im_same"   returns a method whose im_self == maybe_cls
\*               "im_other"  returns a method whose im_self is something else
\*   name      maybe_cls.__name__ (a class has one, an instance has not)
\*   clsname   maybe_cls.__class__.__name__
\*   objmodule maybe_cls.__module__, "?" when the attribute is missing
FrameModules == {"", "app"}
CoNames == {"run", "<module>"}
VarNames == {"", "self", "cls", "x"}
AttrKinds == {"missing", "error", "plain", "im_same", "im_other"}
ObjNames == {"", "Klass"}
ClsNames == {"", "type"}
ObjModules == {"", "pkg", "?"}

\* Module-level code has no local variable names.
Frames ==
    {fr \in [module : FrameModules, co_name : CoNames, varname : VarNames,
             bound : BOOLEAN, attr : AttrKinds, name : ObjNames,
             clsname : ClsNames, objmodule : ObjModules] :
        /\ fr.co_name = "<module>" => fr.varname = ""
        /\ fr.varname = "" => (~fr.bound /\ fr.attr = "missing" /\ fr.name = ""
                               /\ fr.clsname = "" /\ fr.objmodule = "?")
        /\ ~fr.bound => (fr.attr = "missing" /\ fr.name = ""
                         /\ fr.clsname = "" /\ fr.objmodule = "?")}

NoFrame == [module |-> "", co_name |-> "", varname |-> "", bound |-> FALSE,
            attr |-> "missing", name |-> "", clsname |-> "", objmodule |-> "?"]

\* The try block of get_name (lang.py:25-43). The outcome says whether an
\* exception left the block uncaught, and gives `name` (as the list of its
\* dot-separated parts) and `module` after it.
\* The except clause (lang.py:44) catches KeyError and AttributeError only.
Caught(exc) == exc \in {"KeyError", "AttributeError"}

TryOutcome(raised, name, module) == [raised |-> raised, name |-> name, module |-> module]

\* An exception exc is raised inside the try block with `name` and `module`
\* as they are at that point.
Throw(exc, name, module) == TryOutcome(~Caught(exc), name, module)

TryBlock(fr) ==
    LET name0 == <<fr.co_name>>
        module0 == fr.module
    IN  \* lang.py:30  maybe_cls = frame.f_locals[varname]
        IF ~fr.bound THEN Throw("KeyError", name0, module0)
        \* lang.py:33  maybe_func = getattr(maybe_cls, frame.f_code.co_name)
        ELSE IF fr.attr = "missing" THEN Throw("AttributeError", name0, module0)
        ELSE IF fr.attr = "error" THEN Throw("ValueError", name0, module0)
        \* lang.py:36  varname == 'self' or maybe_func.im_self == maybe_cls
        ELSE IF fr.varname /= "self" /\ fr.attr = "plain"
             THEN Throw("AttributeError", name0, module0)
        ELSE IF fr.varname = "self" \/ fr.attr = "im_same"
             THEN \* lang.py:37-39
                  LET cls_name == IF fr.name /= "" THEN fr.name ELSE fr.clsname
                  IN  IF cls_name /= ""
                      THEN \* lang.py:42-43
                           IF fr.objmodule = "?"
                           THEN Throw("AttributeError", <<cls_name, fr.co_name>>, module0)
                           ELSE TryOutcome(FALSE, <<cls_name, fr.co_name>>, fr.objmodule)
                      ELSE TryOutcome(FALSE, name0, module0)
        ELSE TryOutcome(FALSE, name0, module0)

\* get_name (lang.py:9-56). The result is the list of the dot-separated
\* parts of the returned string, or the fact that an exception came out.
get_name(fr) ==
    LET after == IF fr.varname /= ""                       \* lang.py:23
                 THEN TryBlock(fr)
                 ELSE TryOutcome(FALSE, <<fr.co_name>>, fr.module)
    IN  IF after.raised THEN [raised |-> TRUE, parts |-> <<>>]
        ELSE IF after.module /= ""                          \* lang.py:48
             THEN IF after.name /= <<"<module>">>           \* lang.py:51
                  THEN [raised |-> FALSE, parts |-> <<after.module>> \o after.name]
                  ELSE [raised |-> FALSE, parts |-> <<after.module>>]
             ELSE [raised |-> FALSE, parts |-> after.name]  \* lang.py:56

FrameInit ==
    /\ frame = NoFrame
    /\ fres = [raised |-> FALSE, parts |-> <<>>]

\* A caller hands a frame to get_name.
GetName(fr) ==
    /\ frame' = fr
    /\ fres' = get_name(fr)
    /\ UNCHANGED <<singletonVars, unsetVars, timeVars>>

FrameNext == \E fr \in Frames : GetName(fr)

(***************************************************************************)
(* time.py                                                                 *)
(***************************************************************************)
\* ---- the standard library's calendar, as time.py uses it ----
\* A datetime: the civil fields, and its tzinfo as `aware` with the UTC
\* offset in minutes (a naive datetime has aware = FALSE, offset = 0).
DT(y, mo, d, h, mi, sec, us, aware, offset) ==
    [year |-> y, month |-> mo, day |-> d, hour |-> h, minute |-> mi,
     second |-> sec, microsecond |-> us, aware |-> aware, offset |-> offset]

\* The outcome of a call: the exception it raised, or the value it returned
\* (an integer, a float timestamp as `int` whole seconds and `micro`
\* microseconds, or a datetime).
NoDT == DT(1, 1, 1, 0, 0, 0, 0, FALSE, 0)
Err(e) == [ok |-> FALSE, err |-> e, int |-> 0, micro |-> 0, dt |-> NoDT]
OkInt(n) == [ok |-> TRUE, err |-> "", int |-> n, micro |-> 0, dt |-> NoDT]
OkStamp(st) == [ok |-> TRUE, err |-> "", int |-> st.whole, micro |-> st.micro, dt |-> NoDT]
OkDt(d) == [ok |-> TRUE, err |-> "", int |-> 0, micro |-> 0, dt |-> d]

IsLeap(y) == y % 4 = 0 /\ (y % 100 /= 0 \/ y % 400 = 0)
DaysInMonth(y, m) ==
    IF m = 2 THEN (IF IsLeap(y) THEN 29 ELSE 28)
    ELSE IF m \in {4, 6, 9, 11} THEN 30 ELSE 31
DaysBeforeYear(y) ==
    (y - 1) * 365 + (y - 1) \div 4 - (y - 1) \div 100 + (y - 1) \div 400
RECURSIVE DaysBeforeMonth(_, _)
DaysBeforeMonth(y, m) ==
    IF m = 1 THEN 0 ELSE DaysBeforeMonth(y, m - 1) + DaysInMonth(y, m - 1)

\* date.toordinal(): 0001-01-01 is day 1.
YmdToOrd(y, m, d) == DaysBeforeYear(y) + DaysBeforeMonth(y, m) + d
toordinal(dt) == YmdToOrd(dt.year, dt.month, dt.day)

\* The civil date of an ordinal, as <<year, month, day>>.
OrdToYmd(n) ==
    LET y == CHOOSE yy \in (n \div 366)..(n \div 365 + 1) :
                 yy >= 1 /\ DaysBeforeYear(yy) < n /\ n <= DaysBeforeYear(yy + 1)
        r == n - DaysBeforeYear(y)
        m == CHOOSE mm \in 1..12 :
                 DaysBeforeMonth(y, mm) < r /\ r <= DaysBeforeMonth(y, mm) + DaysInMonth(y, mm)
    IN  <<y, m, r - DaysBeforeMonth(y, m)>>

\* datetime.weekday(): Monday is 0.
weekday(dt) == (toordinal(dt) + 6) % 7

SecondOfDay(dt) == dt.hour * 3600 + dt.minute * 60 + dt.second

\* The datetime at `sec` seconds and `us` microseconds after 00:00 of
\* ordinal day `ord` (either may be out of range: the carry is propagated).
Normalised(ord, sec, us, aware, offset) ==
    LET s2 == sec + us \div 1000000
        d2 == ord + s2 \div 86400
        sod == s2 % 86400
        ymd == OrdToYmd(d2)
    IN  DT(ymd[1], ymd[2], ymd[3], sod \div 3600, (sod % 3600) \div 60, sod % 60,
           us % 1000000, aware, offset)

\* datetime + timedelta(days, seconds); the tzinfo is kept.
PlusDelta(dt, days, seconds) ==
    Normalised(toordinal(dt) + days, SecondOfDay(dt) + seconds, dt.microsecond,
               dt.aware, dt.offset)

\* datetime - datetime -> timedelta, normalised as Python does
\* (0 <= seconds < 86400, 0 <= microseconds < 10^6); subtracting a naive
\* and an aware datetime is a TypeError.
MinusDatetime(a, b) ==
    IF a.aware /= b.aware
    THEN [ok |-> FALSE, err |-> "TypeError", days |-> 0, seconds |-> 0, microseconds |-> 0]
    ELSE LET us == a.microsecond - b.microsecond
             sec == SecondOfDay(a) - a.offset * 60 - SecondOfDay(b) + b.offset * 60
                    + us \div 1000000
             days == toordinal(a) - toordinal(b) + sec \div 86400
         IN  [ok |-> TRUE, err |-> "", days |-> days, seconds |-> sec % 86400,
              microseconds |-> us % 1000000]

\* int(timedelta.total_seconds()): the float days*86400 + seconds + us/10^6
\* truncated toward zero.
IntTotalSeconds(td) ==
    LET whole == td.days * 86400 + td.seconds
    IN  IF whole < 0 /\ td.microseconds > 0 THEN whole + 1 ELSE whole

\* datetime.datetime.fromordinal(n): the naive datetime at 00:00 of day n.
fromordinal(n) ==
    LET ymd == OrdToYmd(n) IN DT(ymd[1], ymd[2], ymd[3], 0, 0, 0, 0, FALSE, 0)

\* ---- timestamps ----
\* A float timestamp is kept exactly, as whole seconds plus a count of
\* microseconds: the value is whole + micro / 10^6. (For the instants of the
\* model, before year 2242, a double is precise to better than half a
\* microsecond, so round() in fromutctimestamp recovers the count.)
Stamp(whole, micro) == [whole |-> whole, micro |-> micro]

EpochOrd == YmdToOrd(1970, 1, 1)

\* calendar.timegm(stamp.utctimetuple()): the aware datetime is moved to
\* UTC and counted in seconds from the epoch.
timegm_utc(dt) ==
    (toordinal(dt) - EpochOrd) * 86400 + SecondOfDay(dt) - dt.offset * 60

\* time.mktime(stamp.timetuple()): the naive datetime is read as local
\* time, `tzlocal` minutes east of UTC.
mktime(dt, tzlocal) ==
    (toordinal(dt) - EpochOrd) * 86400 + SecondOfDay(dt) - tzlocal * 60

\* toutctimestamp (time.py:77-98)
toutctimestamp(dt, tzlocal) ==
    IF dt.aware                                        \* time.py:93
    THEN Stamp(timegm_utc(dt), dt.microsecond)         \* time.py:95
    ELSE Stamp(mktime(dt, tzlocal), dt.microsecond)    \* time.py:98

\* int(stamp): a float is truncated toward zero.
IntOfStamp(st) ==
    IF st.whole < 0 /\ st.micro > 0 THEN st.whole + 1 ELSE st.whole

\* time.py:68  int(round(10**6 * (stamp - int(stamp))))
DecimalOfStamp(st) == (st.whole - IntOfStamp(st)) * 1000000 + st.micro

\* time.gmtime(stamp): the float is cast to time_t (toward zero) and broken
\* down in UTC; tm_isdst is 0 for gmtime.
gmtime(st) ==
    LET secs == IntOfStamp(st)
        ymd == OrdToYmd(EpochOrd + secs \div 86400)
        sod == secs % 86400
    IN  [tm |-> <<ymd[1], ymd[2], ymd[3], sod \div 3600, (sod % 3600) \div 60, sod % 60>>,
         tm_isdst |-> 0]

\* fromutctimestamp (time.py:55-74). datetime.datetime() rejects a
\* microsecond outside 0..999999 with ValueError.
fromutctimestamp(st) ==
    LET decimal == DecimalOfStamp(st)                                \* time.py:68
        g == gmtime(st)                                              \* time.py:69
    IN  IF decimal \notin 0..999999 THEN Err("ValueError")           \* time.py:70
        ELSE LET new_stamp == DT(g.tm[1], g.tm[2], g.tm[3], g.tm[4], g.tm[5],
                                 g.tm[6], decimal, TRUE, 0)
             IN  IF g.tm_isdst /= 0                                  \* time.py:72
                 THEN OkDt(PlusDelta(new_stamp, 0, -3600))             \* time.py:73
                 ELSE OkDt(new_stamp)

\* as_utc (time.py:101-114)
as_utc(dt, tzlocal) == fromutctimestamp(toutctimestamp(dt, tzlocal))

\* ---- weeks ----
\* week_start (time.py:129-137)
week_startKeepsTime(dt) == PlusDelta(dt, 0 - weekday(dt), 0)
week_start(dt) ==
    LET back == PlusDelta(dt, 0 - weekday(dt), 0)      \* time.py:135
    IN  fromordinal(toordinal(back))                   \* time.py:136

\* week_seconds (time.py:140-147)
week_secondsSwapped(dt) ==
    LET difference == MinusDatetime(week_start(dt), dt)
    IN  IF ~difference.ok THEN Err(difference.err)
        ELSE OkInt(IntTotalSeconds(difference))
week_seconds(dt) ==
    LET difference == MinusDatetime(dt, week_start(dt))    \* time.py:146
    IN  IF ~difference.ok THEN Err(difference.err)
        ELSE OkInt(IntTotalSeconds(difference))           \* time.py:147

\* week_seconds_to_datetime (time.py:150-157); clock is datetime.now().
week_seconds_to_datetimeFromNow(seconds, clock) == PlusDelta(clock, 0, seconds)
week_seconds_to_datetime(seconds, clock) ==
    PlusDelta(week_start(clock), 0, seconds)

\* make_week_seconds (time.py:160-174); clock is datetime.now().
make_week_seconds(day, hour, minute, seconds, clock) ==
    LET stamp == PlusDelta(week_start(clock), day, 0)                  \* time.py:170-171
        combined == DT(stamp.year, stamp.month, stamp.day,
                       hour, minute, seconds, 0, FALSE, 0)             \* time.py:172-173
    IN  week_seconds(combined)                                         \* time.py:174

\* ---- the inputs the time functions are applied to ----
WeekDates == {<<1, 1, 1>>, <<1969, 12, 31>>, <<2019, 12, 30>>, <<2020, 1, 1>>,
              <<2020, 1, 5>>, <<2020, 1, 6>>, <<2020, 3, 1>>}
StampDates == {<<1969, 12, 31>>, <<1970, 1, 1>>, <<2020, 1, 1>>, <<2020, 2, 29>>}
TimesOfDay == {<<0, 0, 0>>, <<12, 30, 15>>, <<23, 59, 59>>}
Micros == {0, 1, 500000, 999999}
\* tzinfo: none, UTC, +05:30, -05:00
Zones == {[aware |-> FALSE, offset |-> 0], [aware |-> TRUE, offset |-> 0],
          [aware |-> TRUE, offset |-> 330], [aware |-> TRUE, offset |-> -300]}
\* The local timezone of the process, in minutes east of UTC.
LocalOffsets == {0, 60}
MaxDay == 8

Datetimes(dates) ==
    {DT(d[1], d[2], d[3], t[1], t[2], t[3], us, z.aware, z.offset) :
        d \in dates, t \in TimesOfDay, us \in Micros, z \in Zones}

\* The readings of the clock: a Wednesday, the last microsecond of the
\* Sunday of the same week, and the first instant of the next Monday.
NowValues == {DT(2020, 1, 1, 12, 30, 15, 1, FALSE, 0),
              DT(2020, 1, 5, 23, 59, 59, 999999, FALSE, 0),
              DT(2020, 1, 6, 0, 0, 0, 0, FALSE, 0)}

\* a is an earlier naive datetime than b
Earlier(a, b) ==
    LET d == MinusDatetime(b, a)
    IN  d.days > 0 \/ (d.days = 0 /\ (d.seconds > 0 \/ d.microseconds > 0))

\* The argument in hand: a datetime (with the local timezone of the process,
\* which only a naive datetime makes matter) or the arguments of
\* make_week_seconds.
DatetimeInputs ==
    {[kind |-> "datetime", dt |-> d, tzlocal |-> z, tuple |-> <<>>] :
        d \in Datetimes(WeekDates \cup StampDates), z \in LocalOffsets}
TupleInputs ==
    {[kind |-> "tuple", dt |-> DT(1, 1, 1, 0, 0, 0, 0, FALSE, 0), tzlocal |-> 0,
      tuple |-> <<day, hour, minute, seconds>>] :
        day \in 0..MaxDay, hour \in {0, 23}, minute \in {0, 59}, seconds \in {0, 59}}
NoOutput == Err("none")

TimeInit ==
    /\ now \in NowValues
    /\ tin \in {i \in DatetimeInputs : i.dt.aware => i.tzlocal = 0} \cup TupleInputs
    /\ top = "none"
    /\ tmid = NoOutput
    /\ tout = NoOutput
    /\ tclock = now

\* Time passes.
Tick(later) ==
    /\ Earlier(now, later)
    /\ now' = later
    /\ UNCHANGED <<top, tin, tmid, tout, tclock>>
    /\ UNCHANGED <<singletonVars, unsetVars, frameVars>>

\* as_utc(d) = fromutctimestamp(toutctimestamp(d)), for the dates whose
\* timestamp the model can hold.
OpAsUtc ==
    /\ tin.kind = "datetime"
    /\ <<tin.dt.year, tin.dt.month, tin.dt.day>> \in StampDates
    /\ top' = "as_utc"
    /\ tmid' = OkStamp(toutctimestamp(tin.dt, tin.tzlocal))
    /\ tout' = as_utc(tin.dt, tin.tzlocal)
    /\ tclock' = now
    /\ UNCHANGED <<now, tin>>
    /\ UNCHANGED <<singletonVars, unsetVars, frameVars>>

\* week_seconds(week_start(t))
OpWeekStartSeconds ==
    /\ tin.kind = "datetime"
    /\ top' = "week_start"
    /\ tmid' = OkDt(week_start(tin.dt))
    /\ tout' = week_seconds(week_start(tin.dt))
    /\ tclock' = now
    /\ UNCHANGED <<now, tin>>
    /\ UNCHANGED <<singletonVars, unsetVars, frameVars>>

\* week_seconds_to_datetime(week_seconds(t)); an exception of the inner call
\* propagates.
OpWeekSecondsToDatetime ==
    /\ tin.kind = "datetime"
    /\ top' = "week_seconds"
    /\ tmid' = week_seconds(tin.dt)
    /\ tout' = IF week_seconds(tin.dt).ok
               THEN OkDt(week_seconds_to_datetime(week_seconds(tin.dt).int, now))
               ELSE week_seconds(tin.dt)
    /\ tclock' = now
    /\ UNCHANGED <<now, tin>>
    /\ UNCHANGED <<singletonVars, unsetVars, frameVars>>

\* make_week_seconds(day, hour, minute, seconds)
OpMakeWeekSeconds ==
    /\ tin.kind = "tuple"
    /\ top' = "make_week_seconds"
    /\ tmid' = NoOutput
    /\ tout' = make_week_seconds(tin.tuple[1], tin.tuple[2], tin.tuple[3],
                                 tin.tuple[4], now)
    /\ tclock' = now
    /\ UNCHANGED <<now, tin>>
    /\ UNCHANGED <<singletonVars, unsetVars, frameVars>>

TimeNext ==
    \/ \E later \in NowValues : Tick(later)
    \/ OpAsUtc
    \/ OpWeekStartSeconds
    \/ OpWeekSecondsToDatetime
    \/ OpMakeWeekSeconds

(***************************************************************************)
(* The families at rest (used by the specifications of the other families) *)
(***************************************************************************)
SingletonIdle ==
    /\ klass = "Plain"
    /\ cls_singleton = None
    /\ pc = [t \in Threads |-> "idle"]
    /\ args = [t \in Threads |-> 0]
    /\ built = [t \in Threads |-> None]
    /\ result = [t \in Threads |-> [kind |-> "none", inst |-> None]]
    /\ nextId = 1
    /\ calls = 0
    /\ history = <<>>
    /\ overlapped = FALSE

UnsetIdle == UnsetInit

FrameIdle == FrameInit

TimeIdle ==
    /\ now = DT(2020, 1, 1, 12, 30, 15, 1, FALSE, 0)
    /\ top = "none"
    /\ tin = [kind |-> "none", dt |-> DT(1, 1, 1, 0, 0, 0, 0, FALSE, 0),
              tzlocal |-> 0, tuple |-> <<>>]
    /\ tmid = NoOutput
    /\ tout = NoOutput
    /\ tclock = now

Init == SingletonInit /\ UnsetIdle /\ FrameIdle /\ TimeIdle
Next == SingletonNext
Spec == Init /\ [][Next]_vars

InitUnset == UnsetInit /\ SingletonIdle /\ FrameIdle /\ TimeIdle
NextUnset == UnsetNext
SpecUnset == InitUnset /\ [][NextUnset]_vars

InitFrame == FrameInit /\ SingletonIdle /\ UnsetIdle /\ TimeIdle
NextFrame == FrameNext
SpecFrame == InitFrame /\ [][NextFrame]_vars

InitTime == TimeInit /\ SingletonIdle /\ UnsetIdle /\ FrameIdle
NextTime == TimeNext
SpecTime == InitTime /\ [][NextTime]_vars

(***************************************************************************)
(* Claims about the singleton wrapper                                      *)
(***************************************************************************)
Kinds(S) == {i \in DOMAIN history : history[i].kind \in S}
SlotBefore(i) == IF i = 1 THEN None ELSE history[i - 1].slot

\* C1 (as stated): when the calls are made one after another, once a call has
\* returned, no later call runs the original construction logic and every
\* later call returns the instance the first one returned -- for every
\* original class, false-y instances included.
C1_SequentialCallsReuseFirstInstance ==
    ~overlapped =>
        \A i, j \in DOMAIN history :
            (i < j /\ history[i].kind = "ret") =>
                /\ history[j].kind \notin {"build", "raise"}
                /\ (history[j].kind = "ret" => history[j].inst = history[i].inst)

\* C2: a construction that raises on an empty slot propagates to the caller
\* (the call is over, its outcome is the exception) and leaves the slot
\* empty; when the calls are made one after another, the next call runs the
\* original construction logic again with its own argument and, if that
\* succeeds, the slot holds the instance it built and the call returns it.
C2_FailedConstructionLeavesSlotEmpty ==
    \A i \in DOMAIN history :
        (history[i].kind = "raise" /\ SlotBefore(i) = None) =>
            /\ history[i].slot = None
            /\ (\A j \in DOMAIN history :
                   (j > i) => history[j].thread /= history[i].thread)
               => /\ pc[history[i].thread] = "idle"
                  /\ result[history[i].thread].kind = "raised"
            /\ (~overlapped /\ i + 2 <= Len(history)) =>
                  /\ history[i + 1].kind = "call"
                  /\ history[i + 2].kind \in {"build", "raise"}
                  /\ history[i + 2].arg = history[i + 1].arg
                  /\ (history[i + 2].kind = "build" /\ i + 4 <= Len(history)) =>
                        /\ history[i + 3].kind = "store"
                        /\ history[i + 3].slot = history[i + 2].inst
                        /\ history[i + 4].kind = "ret"
                        /\ history[i + 4].inst = history[i + 2].inst
                        /\ history[i + 2].inst.arg = history[i + 1].arg

\* C2 witness: a call raised on the empty slot and the next call, made with
\* another argument, built an instance, cached it and returned it.
C2_Witness ==
    \E i \in DOMAIN history :
        /\ ~overlapped
        /\ history[i].kind = "raise"
        /\ SlotBefore(i) = None
        /\ i + 4 <= Len(history)
        /\ history[i + 4].kind = "ret"
        /\ history[i + 4].inst = cls_singleton
        /\ cls_singleton /= None
        /\ history[i + 1].arg /= history[i].arg

\* C3: the check and the write are separate steps. Whatever the interleaving,
\* the slot holds the instance written last (last write wins), every return
\* hands out what the slot held at that moment.
C3_LastWriteWins ==
    /\ LET stores == Kinds({"store"})
       IN  IF stores = {} THEN cls_singleton = None
           ELSE cls_singleton =
                   history[CHOOSE i \in stores : \A j \in stores : j <= i].inst
    /\ \A i \in Kinds({"ret"}) : history[i].inst = SlotBefore(i)

\* C3 witness: two threads made the first call concurrently, both saw the
\* slot empty, both ran the constructor, the two calls returned different
\* instances and the slot holds the one written last.
C3_Witness ==
    \E i, j \in Kinds({"ret"}) :
        /\ i < j
        /\ history[i].thread /= history[j].thread
        /\ history[i].inst /= history[j].inst
        /\ history[i].inst /= None
        /\ cls_singleton = history[j].inst
        /\ Cardinality(Kinds({"build"})) = 2
        /\ \A k \in Kinds({"call"}) : history[k].slot = None /\ k <= 2
        /\ \A t \in Threads : result[t].kind = "returned"

(***************************************************************************)
(* Claims about UNSET                                                      *)
(***************************************************************************)
\* C4: UNSET == v is true exactly when v is UNSET itself or v is false-y,
\* and false for every truthy v other than UNSET.
C4_EqualsExactlyFalsyOrSelf ==
    uop = "eq" =>
        /\ ures \in {PyTrue, PyFalse}
        /\ (ures = PyTrue) <=>
              \/ uarg = TheUNSET
              \/ uarg \in {PyNone, PyFalse, PyInt(0)}
              \/ (uarg.tag \in {"str", "list", "tuple", "dict"} /\ uarg.n = 0)

\* C4 witness: UNSET was compared with a false-y value other than itself
\* and None, and the comparison said equal.
C4_Witness == uop = "eq" /\ uarg = PyVal("list", 0) /\ ures = PyTrue

\* C5: after any sequence of operations on UNSET, bool(UNSET) is false,
\* len(UNSET) is 0, UNSET() is UNSET and an iteration yields no elements.
C5_AlwaysEmptyAndFalse ==
    /\ uop = "bool" => ures = PyFalse
    /\ uop = "len" => ures = PyInt(0)
    /\ uop = "call" => ures = TheUNSET
    /\ uop = "iter" => ures = TheUNSET
    /\ uiter = <<>>

\* C5 witness: after other operations and an earlier iteration, UNSET was
\* iterated again and the iteration ended without an element.
C5_Witness == uop = "iter" /\ uiters >= 2 /\ ucount > uiters /\ uiter = <<>>

(***************************************************************************)
(* Claims about get_name                                                   *)
(***************************************************************************)
\* The first local or the attribute named after the function could not be
\* resolved: no locals, first local not bound, attribute missing, or the
\* attribute lookup itself failing.
ResolutionFails(fr) ==
    fr.varname = "" \/ ~fr.bound \/ fr.attr \in {"missing", "error"}

\* C10 (as stated): get_name never raises; every resolution failure gives
\* the plain module.function_name; with no module the result is just the
\* name, and for the top-level module context it is just the module name.
C10_GetNameNeverRaises ==
    frame /= NoFrame =>
        /\ ~fres.raised
        /\ (ResolutionFails(frame) /\ frame.module /= "" /\ frame.co_name /= "<module>")
              => fres.parts = <<frame.module, frame.co_name>>
        /\ (ResolutionFails(frame) /\ frame.module = "")
              => fres.parts = <<frame.co_name>>
        /\ (frame.module /= "" /\ frame.co_name = "<module>")
              => fres.parts = <<frame.module>>

(***************************************************************************)
(* Claims about the time utilities                                         *)
(***************************************************************************)
\* The ordinal of the Monday of dt's Monday-to-Sunday week.
MondayOrd(dt) == toordinal(dt) - ((toordinal(dt) - 1) % 7)

\* a and b are aware datetimes denoting the same instant, to the microsecond.
SameInstant(a, b) ==
    /\ a.microsecond = b.microsecond
    /\ (toordinal(a) - toordinal(b)) * 86400 + SecondOfDay(a) - SecondOfDay(b)
          = (a.offset - b.offset) * 60

\* C6 (as stated): for a timezone-aware d, fromutctimestamp(toutctimestamp(d))
\* returns without error a UTC datetime denoting the same instant as d, with
\* the same microsecond.
C6_RoundTripReproducesInstant ==
    (top = "as_utc" /\ tin.dt.aware) =>
        /\ tout.ok
        /\ tout.dt.aware /\ tout.dt.offset = 0
        /\ SameInstant(tout.dt, tin.dt)

\* C7: week_seconds(week_start(t)) is 0 for naive and aware t alike;
\* week_start(t) is Monday 00:00:00 of t's week and is its own week start.
C7_WeekStartIsSecondZero ==
    top = "week_start" =>
        /\ tout = OkInt(0)
        /\ toordinal(tmid.dt) = MondayOrd(tin.dt)
        /\ SecondOfDay(tmid.dt) = 0 /\ tmid.dt.microsecond = 0
        /\ ~tmid.dt.aware /\ week_start(tmid.dt) = tmid.dt

\* C7 witness: the week start of an aware Sunday-evening timestamp was
\* taken and its week second computed.
C7_Witness ==
    /\ top = "week_start"
    /\ tin.dt.aware /\ weekday(tin.dt) = 6 /\ tin.dt.hour = 23 /\ tin.dt.microsecond = 999999
    /\ tout = OkInt(0)

\* C8 (as stated): week_seconds_to_datetime(week_seconds(t)) is a datetime in
\* the same Monday-to-Sunday week as t with t's weekday, hour, minute and
\* second, whatever the clock says.
C8_SameWeekAsInput ==
    top = "week_seconds" =>
        /\ tout.ok
        /\ MondayOrd(tout.dt) = MondayOrd(tin.dt)
        /\ weekday(tout.dt) = weekday(tin.dt)
        /\ tout.dt.hour = tin.dt.hour
        /\ tout.dt.minute = tin.dt.minute
        /\ tout.dt.second = tin.dt.second

\* C8 (amended): for a naive t, week_seconds_to_datetime(week_seconds(t)) is a
\* datetime in the week that contains the clock's reading at the call, with
\* t's weekday, hour, minute and second; for an aware t week_seconds raises
\* TypeError and so does the composed call.
C8_SameWeekAsClock ==
    top = "week_seconds" =>
        IF tin.dt.aware
        THEN ~tmid.ok /\ tmid.err = "TypeError" /\ tout = tmid
        ELSE /\ tmid.ok /\ tout.ok
             /\ MondayOrd(tout.dt) = MondayOrd(tclock)
             /\ weekday(tout.dt) = weekday(tin.dt)
             /\ tout.dt.hour = tin.dt.hour
             /\ tout.dt.minute = tin.dt.minute
             /\ tout.dt.second = tin.dt.second

\* C8 witness: a naive timestamp of another week than the clock's went
\* through the two functions and came back in the clock's week.
C8_Witness ==
    /\ top = "week_seconds"
    /\ ~tin.dt.aware
    /\ MondayOrd(tin.dt) /= MondayOrd(tclock)
    /\ weekday(tin.dt) = 6
    /\ tout.ok /\ MondayOrd(tout.dt) = MondayOrd(tclock)

\* C9: every week-second offset week_seconds or make_week_seconds produces is
\* an integer in [0, 604800), for make_week_seconds also with day >= 7; and
\* make_week_seconds(0, 0, 0, 0) is 0.
C9_OffsetInRange ==
    /\ (top = "week_seconds" /\ tmid.ok) => tmid.int \in 0..604799
    /\ top = "make_week_seconds" =>
          /\ tout.ok
          /\ tout.int \in 0..604799
          /\ tin.tuple = <<0, 0, 0, 0>> => tout.int = 0

\* C9 witness: make_week_seconds was called with a day past the end of the
\* week and the last second of that day.
C9_Witness ==
    /\ top = "make_week_seconds"
    /\ tin.tuple = <<7, 23, 59, 59>>
    /\ tout.ok /\ tout.int \in 0..604799

====
